---- MODULE Spec2Model ----
(***************************************************************************)
(* A model of hash.py, the external data source of the Lambda module: it   *)
(* relativizes the source and build paths against the module directory,    *)
(* folds file names and contents into a SHA-256 digest, substitutes the    *)
(* build command, sweeps builds/ for old archives and prints the response. *)
(*                                                                         *)
(* Strings are sequences of one-character strings, so that split, replace, *)
(* join and sort act on text exactly as the Python string methods do.      *)
(***************************************************************************)
EXTENDS Integers, Sequences, FiniteSets, TLC

VARIABLES
    cwd,                \* the process's working directory (a string)
    dirs,               \* the directories that exist (absolute strings)
    files,              \* regular files: absolute string -> content
    mtime,              \* regular files: absolute string -> day of last change
    readonly,           \* files whose removal fails with EACCES
    arg_a, arg_b,       \* the arguments of one build_relative_path call
    rel_result,         \* its outcome
    query,              \* the JSON document on standard input
    pc,                 \* the script's position
    source_path, final_source_path, hash_dirs,
    content_hash, filename, build_command,
    stdout, stderr, exit_status,
    spc, todo, name, swallowed, raised, removed,   \* delete_old_archives, per invocation
    runs                \* the outcomes of the completed runs

envVars    == <<cwd, dirs, files, mtime, readonly>>
relVars    == <<arg_a, arg_b, rel_result>>
scriptVars == <<query, pc, source_path, final_source_path, hash_dirs,
                content_hash, filename, build_command, stdout, stderr,
                exit_status>>
sweepVars  == <<spc, todo, name, swallowed, raised, removed>>
vars       == <<envVars, relVars, scriptVars, sweepVars, runs>>

----------------------------------------------------------------------------
(* Text *)

\* The characters in use, in code point order (str comparison, list.sort).
Chars ==
    <<" ", "$", ".", "/", "a", "b", "c", "d", "e", "f", "g", "h", "i", "j",
      "k", "l", "m", "n", "o", "p", "q", "r", "s", "t", "u", "v", "w", "x",
      "y", "z">>

Ord(c) == CHOOSE i \in 1..Len(Chars) : Chars[i] = c

\* s < t for two str values.
RECURSIVE StrLess(_, _)
StrLess(s, t) ==
    IF t = <<>> THEN FALSE
    ELSE IF s = <<>> THEN TRUE
    ELSE IF Head(s) = Head(t) THEN StrLess(Tail(s), Tail(t))
    ELSE Ord(Head(s)) < Ord(Head(t))

StartsWith(s, p) == Len(p) <= Len(s) /\ SubSeq(s, 1, Len(p)) = p

EndsWith(s, p) ==
    Len(p) <= Len(s) /\ SubSeq(s, Len(s) - Len(p) + 1, Len(s)) = p

Drop(s, n) == SubSeq(s, n + 1, Len(s))

\* s.split('/')
RECURSIVE Split(_)
Split(s) ==
    IF \E i \in 1..Len(s) : s[i] = "/"
    THEN LET i == CHOOSE j \in 1..Len(s) :
                      s[j] = "/" /\ \A h \in 1..(j - 1) : s[h] # "/"
         IN <<SubSeq(s, 1, i - 1)>> \o Split(Drop(s, i))
    ELSE <<s>>

\* sep.join(elems)
RECURSIVE Join(_, _)
Join(sep, elems) ==
    IF elems = <<>> THEN <<>>
    ELSE IF Len(elems) = 1 THEN elems[1]
    ELSE elems[1] \o sep \o Join(sep, Tail(elems))

\* s.find(old) + 1: where old first occurs in s, 0 if nowhere.
Find(s, old) ==
    LET at == {i \in 1..(Len(s) - Len(old) + 1) :
                  SubSeq(s, i, i + Len(old) - 1) = old}
    IN IF at = {} THEN 0 ELSE CHOOSE i \in at : \A j \in at : i <= j

\* s.replace(old, new, count); count < 0 replaces every occurrence.
RECURSIVE Replace(_, _, _, _)
Replace(s, old, new, count) ==
    IF count = 0 THEN s
    ELSE IF old = <<>>
    THEN IF s = <<>> THEN new
         ELSE new \o <<Head(s)>> \o
              (IF Len(s) = 1 /\ count # 1 THEN new
               ELSE IF Len(s) = 1 THEN <<>>
               ELSE Replace(Tail(s), old, new, count - 1))
    ELSE LET i == Find(s, old)
         IN IF i = 0 THEN s
            ELSE SubSeq(s, 1, i - 1) \o new
                     \o Replace(Drop(s, i + Len(old) - 1), old, new, count - 1)

\* sorted(S) for a set of str.
RECURSIVE SortStrs(_)
SortStrs(S) ==
    IF S = {} THEN <<>>
    ELSE LET m == CHOOSE x \in S : \A y \in S \ {x} : StrLess(x, y)
         IN <<m>> \o SortStrs(S \ {m})

\* The concatenation of a sequence of str.
RECURSIVE Concat(_)
Concat(ss) == IF ss = <<>> THEN <<>> ELSE Head(ss) \o Concat(Tail(ss))

Slash  == <<"/">>
DotDot == <<".", ".">>

----------------------------------------------------------------------------
(* os.path *)

IsAbs(p) == StartsWith(p, Slash)

\* os.path.join(a, b)
PathJoin(a, b) ==
    IF IsAbs(b) THEN b
    ELSE IF a = <<>> \/ EndsWith(a, Slash) THEN a \o b
    ELSE a \o Slash \o b

\* The component loop of os.path.normpath.
RECURSIVE NormComps(_, _, _)
NormComps(comps, acc, rooted) ==
    IF comps = <<>> THEN acc
    ELSE LET comp == Head(comps)
             rest == Tail(comps)
         IN IF comp = <<>> \/ comp = <<".">> THEN NormComps(rest, acc, rooted)
            ELSE IF \/ comp # DotDot
                    \/ (~rooted /\ acc = <<>>)
                    \/ (acc # <<>> /\ acc[Len(acc)] = DotDot)
            THEN NormComps(rest, Append(acc, comp), rooted)
            ELSE IF acc # <<>>
            THEN NormComps(rest, SubSeq(acc, 1, Len(acc) - 1), rooted)
            ELSE NormComps(rest, acc, rooted)

\* os.path.normpath(p)
NormPath(p) ==
    IF p = <<>> THEN <<".">>
    ELSE LET slashes == IF ~IsAbs(p) THEN <<>>
                        ELSE IF StartsWith(p, <<"/", "/">>)
                                /\ ~StartsWith(p, <<"/", "/", "/">>)
                        THEN <<"/", "/">>
                        ELSE Slash
             out == slashes \o Join(Slash, NormComps(Split(p), <<>>, IsAbs(p)))
         IN IF out = <<>> THEN <<".">> ELSE out

\* os.path.abspath(p) in working directory wd.
AbsPathIn(wd, p) == NormPath(IF IsAbs(p) THEN p ELSE PathJoin(wd, p))

AbsPath(p) == AbsPathIn(cwd, p)

\* os.path.basename(p), os.path.dirname(p)
LastSlash(p) ==
    IF \E i \in 1..Len(p) : p[i] = "/"
    THEN CHOOSE i \in 1..Len(p) :
             p[i] = "/" /\ \A j \in (i + 1)..Len(p) : p[j] # "/"
    ELSE 0

BaseName(p) == Drop(p, LastSlash(p))

RECURSIVE RStripSlash(_)
RStripSlash(s) ==
    IF s # <<>> /\ s[Len(s)] = "/" THEN RStripSlash(SubSeq(s, 1, Len(s) - 1))
    ELSE s

DirName(p) ==
    LET head == SubSeq(p, 1, LastSlash(p))
    IN IF head # <<>> /\ \E i \in 1..Len(head) : head[i] # "/"
       THEN RStripSlash(head)
       ELSE head

IsFile(p) == AbsPath(p) \in DOMAIN files

IsDir(p) == AbsPath(p) \in dirs

\* The length of the longest common prefix of two sequences.
RECURSIVE CommonLen(_, _)
CommonLen(s, t) ==
    IF s = <<>> \/ t = <<>> \/ Head(s) # Head(t) THEN 0
    ELSE 1 + CommonLen(Tail(s), Tail(t))

NonEmpty(elems) == SelectSeq(elems, LAMBDA e : e # <<>>)

\* os.path.relpath(path, start)
RelPath(path, start) ==
    LET start_list == NonEmpty(Split(AbsPath(start)))
        path_list  == NonEmpty(Split(AbsPath(path)))
        i          == CommonLen(start_list, path_list)
        rel_list   == [j \in 1..(Len(start_list) - i) |-> DotDot]
                          \o Drop(path_list, i)
    IN IF rel_list = <<>> THEN <<".">> ELSE Join(Slash, rel_list)

----------------------------------------------------------------------------
(* build_relative_path *)

\* get_abs_dirname(p)
get_abs_dirname(p) ==
    LET q == AbsPath(p)
    IN IF IsFile(q) THEN BaseName(q) ELSE q

\* The loop that collects selem, the leading elements of aelem that equal
\* those of belem; belem[len(selem)] past the end of belem is an IndexError.
RECURSIVE SameElems(_, _, _)
SameElems(aelem, belem, selem) ==
    IF aelem = <<>> THEN [raise |-> FALSE, selem |-> selem]
    ELSE IF Len(selem) + 1 > Len(belem) THEN [raise |-> TRUE, selem |-> selem]
    ELSE IF Head(aelem) # belem[Len(selem) + 1]
    THEN [raise |-> FALSE, selem |-> selem]
    ELSE SameElems(Tail(aelem), belem, Append(selem, Head(aelem)))

Returned(s) == [kind |-> "return", value |-> s]
Raised(e)   == [kind |-> "raise", value |-> e]

\* build_relative_path(a, b)
build_relative_path(a, b) ==
    LET aa == get_abs_dirname(a)
        ba == get_abs_dirname(b)
    IN IF aa = ba THEN Returned(a)
       ELSE LET same == SameElems(Split(aa), Split(ba), <<>>)
            IN IF same.raise THEN Raised("IndexError")
               ELSE IF Len(same.selem) < 2 THEN Returned(aa)
               ELSE LET s     == Join(Slash, same.selem)
                        rem   == Replace(Replace(ba, s, <<>>, -1), Slash, <<>>, 1)
                        relem == Split(rem)
                        back  == Concat([i \in 1..Len(relem) |-> <<".", ".", "/">>])
                    IN Returned(back \o a)

----------------------------------------------------------------------------
(* list_files, update_hash, generate_content_hash *)

ChunkSize == 1024

\* The pieces open_file.read(1024) returns until it returns nothing.
RECURSIVE ReadChunks(_)
ReadChunks(data) ==
    IF data = <<>> THEN <<>>
    ELSE LET n == IF Len(data) < ChunkSize THEN Len(data) ELSE ChunkSize
         IN <<SubSeq(data, 1, n)>> \o ReadChunks(Drop(data, n))

\* list_files(top_path): os.walk joins top_path with each file's path below
\* it; the list is sorted as strings.
list_files(top_path) ==
    LET top   == AbsPath(top_path)
        under == IF top = Slash THEN Slash ELSE top \o Slash
        below == {f \in DOMAIN files : StartsWith(f, under)}
    IN SortStrs({PathJoin(top_path, Drop(f, Len(under))) : f \in below})

\* update_hash(hash_obj, file_root, file_path), hash_obj being the bytes fed
\* so far: the relative path, then the content, nothing between them.
update_hash(hash_obj, file_root, file_path) ==
    LET relative_path == RelPath(file_path, file_root)
    IN IF ~IsFile(file_path) THEN Raised("IOError")
       ELSE Returned(hash_obj \o relative_path
                         \o Concat(ReadChunks(files[AbsPath(file_path)])))

\* for source_file in ...: update_hash(sha256, source_dir, source_file)
RECURSIVE HashFiles(_, _, _)
HashFiles(sha256, source_dir, source_files) ==
    IF sha256.kind = "raise" \/ source_files = <<>> THEN sha256
    ELSE HashFiles(update_hash(sha256.value, source_dir, Head(source_files)),
                   source_dir, Tail(source_files))

\* for source_path in source_paths: ...
RECURSIVE HashPaths(_, _)
HashPaths(sha256, source_paths) ==
    IF sha256.kind = "raise" \/ source_paths = <<>> THEN sha256
    ELSE LET sp == Head(source_paths)
         IN HashPaths(IF IsDir(sp) THEN HashFiles(sha256, sp, list_files(sp))
                      ELSE HashFiles(sha256, DirName(sp), <<sp>>),
                      Tail(source_paths))

\* generate_content_hash(source_paths)
generate_content_hash(source_paths) == HashPaths(Returned(<<>>), source_paths)

HexDigits == <<"a", "b", "c", "d", "e", "f">>

\* hexdigest(): SHA-256 is taken as collision-free, so a digest stands for
\* exactly one sequence of bytes fed; it is written in hexadecimal digits
\* only, two for each byte fed.
hexdigest(fed) ==
    [i \in 1..(2 * Len(fed)) |->
        IF i % 2 = 1
        THEN HexDigits[(Ord(fed[(i + 1) \div 2]) \div Len(HexDigits)) + 1]
        ELSE HexDigits[(Ord(fed[i \div 2]) % Len(HexDigits)) + 1]]

----------------------------------------------------------------------------
(* delete_old_archives, one invocation p of several over the same directory *)

NumProcs == 2

Procs == 1..NumProcs

\* Days.
Now == 20

RetentionDays == 7

delete_older_than == Now - RetentionDays

Builds == <<"b", "u", "i", "l", "d", "s">>

DotZip == <<".", "z", "i", "p">>

\* The handler without its ENOENT case: every OSError is raised again.
OnOSErrorRaiseAll(p, errno, call) ==
    /\ raised' = [raised EXCEPT ![p] = errno]
    /\ spc' = [spc EXCEPT ![p] = "raised"]
    /\ UNCHANGED swallowed

\* except OSError as error: pass on ENOENT, raise anything else.
OnOSError(p, errno, call) ==
    IF errno = "ENOENT"
    THEN /\ swallowed' = [swallowed EXCEPT ![p] = @ \cup {<<name[p], call>>}]
         /\ spc' = [spc EXCEPT ![p] = "loop"]
         /\ UNCHANGED raised
    ELSE /\ raised' = [raised EXCEPT ![p] = errno]
         /\ spc' = [spc EXCEPT ![p] = "raised"]
         /\ UNCHANGED swallowed

\* The file a name given to a system call denotes: the name is looked up
\* in the working directory.
Lookup(n) == PathJoin(cwd, n)

\* The names of the regular files directly in directory d.
Listing(d) ==
    {Drop(f, Len(d) + 1) :
        f \in {g \in DOMAIN files :
                  /\ StartsWith(g, d \o Slash)
                  /\ \A i \in (Len(d) + 2)..Len(g) : g[i] # "/"}}

\* os.listdir('builds')
ListDir(p) ==
    /\ spc[p] = "listdir"
    /\ IF Lookup(Builds) \in dirs
       THEN /\ todo' = [todo EXCEPT ![p] = Listing(Lookup(Builds))]
            /\ spc' = [spc EXCEPT ![p] = "loop"]
            /\ UNCHANGED raised
       ELSE /\ raised' = [raised EXCEPT ![p] = "ENOENT"]
            /\ spc' = [spc EXCEPT ![p] = "raised"]
            /\ UNCHANGED todo
    /\ UNCHANGED <<envVars, relVars, scriptVars, name, swallowed, removed, runs>>

\* for name in ...: if name.endswith('.zip'); the listing's order is any.
NextName(p) ==
    /\ spc[p] = "loop"
    /\ IF todo[p] = {}
       THEN /\ spc' = [spc EXCEPT ![p] = "done"]
            /\ UNCHANGED <<todo, name>>
       ELSE \E n \in todo[p] :
                /\ todo' = [todo EXCEPT ![p] = @ \ {n}]
                /\ name' = [name EXCEPT ![p] = n]
                /\ spc' = [spc EXCEPT ![p] =
                              IF EndsWith(n, DotZip) THEN "getmtime" ELSE "loop"]
    /\ UNCHANGED <<envVars, relVars, scriptVars, swallowed, raised, removed, runs>>

\* os.path.getmtime(name) and the comparison with delete_older_than
GetMtime(p) ==
    /\ spc[p] = "getmtime"
    /\ IF Lookup(name[p]) \notin DOMAIN files
       THEN OnOSError(p, "ENOENT", "getmtime")
       ELSE /\ spc' = [spc EXCEPT ![p] =
                          IF mtime[Lookup(name[p])] < delete_older_than
                          THEN "remove" ELSE "loop"]
            /\ UNCHANGED <<swallowed, raised>>
    /\ UNCHANGED <<envVars, relVars, scriptVars, todo, name, removed, runs>>

\* os.remove(name)
Remove(p) ==
    /\ spc[p] = "remove"
    /\ LET f == Lookup(name[p])
       IN IF f \notin DOMAIN files
          THEN /\ OnOSError(p, "ENOENT", "remove")
               /\ UNCHANGED <<files, mtime, removed>>
          ELSE IF f \in readonly
          THEN /\ OnOSError(p, "EACCES", "remove")
               /\ UNCHANGED <<files, mtime, removed>>
          ELSE /\ files' = [g \in DOMAIN files \ {f} |-> files[g]]
               /\ mtime' = [g \in DOMAIN mtime \ {f} |-> mtime[g]]
               /\ removed' = removed \cup {[path |-> f, mtime |-> mtime[f]]}
               /\ spc' = [spc EXCEPT ![p] = "loop"]
               /\ UNCHANGED <<swallowed, raised>>
    /\ UNCHANGED <<cwd, dirs, readonly, relVars, scriptVars, todo, name, runs>>

delete_old_archives(p) == ListDir(p) \/ NextName(p) \/ GetMtime(p) \/ Remove(p)

----------------------------------------------------------------------------
(* The script *)

Keys == {"build_command", "build_paths", "module_relpath", "runtime",
         "source_path"}

\* The script with the response written before the archives are swept.
StageAfterOutputFirst(stage) ==
    CASE stage = "parse"      -> "relativize"
      [] stage = "relativize" -> "chdir"
      [] stage = "chdir"      -> "hash"
      [] stage = "hash"       -> "substitute"
      [] stage = "substitute" -> "output"
      [] stage = "output"     -> "sweep"
      [] stage = "sweep"      -> "end"

\* The statements of the script in the order they are written.
StageAfter(stage) ==
    CASE stage = "parse"      -> "relativize"
      [] stage = "relativize" -> "chdir"
      [] stage = "chdir"      -> "hash"
      [] stage = "hash"       -> "substitute"
      [] stage = "substitute" -> "sweep"
      [] stage = "sweep"      -> "output"
      [] stage = "output"     -> "end"

\* abort(message)
abort(message) ==
    /\ stderr' = Append(stderr, message)
    /\ exit_status' = 1
    /\ pc' = "exited"

\* An exception nothing catches: the traceback on stderr, exit status 1.
Uncaught(exception) ==
    /\ stderr' = Append(stderr, exception)
    /\ exit_status' = 1
    /\ pc' = "exited"

\* json.load(sys.stdin), the five fields, and the validation of source_path
Parse ==
    /\ pc = "parse"
    /\ IF ~(Keys \subseteq DOMAIN query)
       THEN /\ Uncaught("KeyError")
            /\ UNCHANGED <<build_command, source_path>>
       ELSE /\ build_command' = query.build_command
            /\ source_path' = AbsPath(query.source_path)
            /\ IF source_path' = <<>>
               THEN abort("source_path must be set.")
               ELSE /\ pc' = StageAfter("parse")
                    /\ UNCHANGED <<stderr, exit_status>>
    /\ UNCHANGED <<envVars, relVars, query, final_source_path, hash_dirs,
                   content_hash, filename, stdout, sweepVars, runs>>

\* The orders in which a set can be iterated.
Orders(S) ==
    {o \in [1..Cardinality(S) -> S] :
        \A i, j \in 1..Cardinality(S) : i # j => o[i] # o[j]}

\* final_source_path, hash_dirs and list(set(hash_dirs))
Relativize ==
    /\ pc = "relativize"
    /\ LET src   == build_relative_path(query.source_path, query.module_relpath)
           built == [i \in 1..Len(query.build_paths) |->
                        build_relative_path(query.build_paths[i],
                                            query.module_relpath)]
       IN IF src.kind = "raise"
             \/ \E i \in 1..Len(built) : built[i].kind = "raise"
          THEN /\ Uncaught("IndexError")
               /\ UNCHANGED <<final_source_path, hash_dirs>>
          ELSE /\ final_source_path' = src.value
               /\ hash_dirs' \in
                      Orders({src.value}
                                 \cup {built[i].value : i \in 1..Len(built)})
               /\ pc' = StageAfter("relativize")
               /\ UNCHANGED <<stderr, exit_status>>
    /\ UNCHANGED <<envVars, relVars, query, source_path, content_hash,
                   filename, build_command, stdout, sweepVars, runs>>

\* os.chdir(module_relpath)
Chdir ==
    /\ pc = "chdir"
    /\ IF IsDir(query.module_relpath)
       THEN /\ cwd' = AbsPath(query.module_relpath)
            /\ pc' = StageAfter("chdir")
            /\ UNCHANGED <<stderr, exit_status>>
       ELSE /\ Uncaught("OSError")
            /\ UNCHANGED cwd
    /\ UNCHANGED <<dirs, files, mtime, readonly, relVars, query, source_path,
                   final_source_path, hash_dirs, content_hash, filename,
                   build_command, stdout, sweepVars, runs>>

\* content_hash and filename
Hash ==
    /\ pc = "hash"
    /\ LET sha256 == generate_content_hash(hash_dirs)
       IN IF sha256.kind = "raise"
          THEN /\ Uncaught(sha256.value)
               /\ UNCHANGED <<content_hash, filename>>
          ELSE /\ content_hash' =
                      sha256.value \o query.runtime \o query.build_command
               /\ filename' = Builds \o Slash \o hexdigest(content_hash')
                                  \o DotZip
               /\ pc' = StageAfter("hash")
               /\ UNCHANGED <<stderr, exit_status>>
    /\ UNCHANGED <<envVars, relVars, query, source_path, final_source_path,
                   hash_dirs, build_command, stdout, sweepVars, runs>>

FilenameVar == <<"$", "f", "i", "l", "e", "n", "a", "m", "e">>
RuntimeVar  == <<"$", "r", "u", "n", "t", "i", "m", "e">>
SourceVar   == <<"$", "s", "o", "u", "r", "c", "e">>

\* The replacements dictionary.
replacements ==
    <<[old |-> FilenameVar, new |-> filename],
      [old |-> RuntimeVar, new |-> query.runtime],
      [old |-> SourceVar, new |-> final_source_path]>>

\* for old, new in items: build_command = build_command.replace(old, new)
RECURSIVE ReplaceEach(_, _)
ReplaceEach(command, items) ==
    IF items = <<>> THEN command
    ELSE ReplaceEach(Replace(command, Head(items).old, Head(items).new, -1),
                     Tail(items))

\* The dictionary is iterated in any order.
Substitute ==
    /\ pc = "substitute"
    /\ \E o \in Orders(1..Len(replacements)) :
           build_command' =
               ReplaceEach(build_command,
                           [i \in 1..Len(replacements) |-> replacements[o[i]]])
    /\ pc' = StageAfter("substitute")
    /\ UNCHANGED <<envVars, relVars, query, source_path, final_source_path,
                   hash_dirs, content_hash, filename, stdout, stderr,
                   exit_status, sweepVars, runs>>

\* The script is the first invocation of delete_old_archives.
Main == CHOOSE p \in Procs : \A q \in Procs : p <= q

CallSweep ==
    /\ pc = "sweep"
    /\ spc[Main] = "idle"
    /\ spc' = [spc EXCEPT ![Main] = "listdir"]
    /\ UNCHANGED <<envVars, relVars, scriptVars, todo, name, swallowed,
                   raised, removed, runs>>

StepSweep ==
    /\ pc = "sweep"
    /\ delete_old_archives(Main)

ReturnSweep ==
    /\ pc = "sweep"
    /\ \/ /\ spc[Main] = "done"
          /\ pc' = StageAfter("sweep")
          /\ UNCHANGED <<stderr, exit_status>>
       \/ /\ spc[Main] = "raised"
          /\ Uncaught("OSError")
    /\ spc' = [spc EXCEPT ![Main] = "returned"]
    /\ UNCHANGED <<envVars, relVars, query, source_path, final_source_path,
                   hash_dirs, content_hash, filename, build_command, stdout,
                   todo, name, swallowed, raised, removed, runs>>

\* json.dump({...}, sys.stdout, indent=2)
Output ==
    /\ pc = "output"
    /\ stdout' = Append(stdout, [filename |-> filename,
                                 build_command |-> build_command])
    /\ pc' = StageAfter("output")
    /\ UNCHANGED <<envVars, relVars, query, source_path, final_source_path,
                   hash_dirs, content_hash, filename, build_command, stderr,
                   exit_status, sweepVars, runs>>

\* The end of the script: exit status 0.
Exit ==
    /\ pc = "end"
    /\ pc' = "exited"
    /\ exit_status' = 0
    /\ UNCHANGED <<envVars, relVars, query, source_path, final_source_path,
                   hash_dirs, content_hash, filename, build_command, stdout,
                   stderr, sweepVars, runs>>

----------------------------------------------------------------------------
(* Inputs *)

MaxDepth == 3

SegNames == {<<"a">>, <<"b">>, <<"c">>}

SegSeqs(n) == UNION {[1..k -> SegNames] : k \in 0..n}

AbsOf(segs) ==
    IF segs = <<>> THEN Slash
    ELSE Concat([i \in 1..Len(segs) |-> Slash \o segs[i]])

\* Absolute paths to MaxDepth segments and relative ones to MaxDepth - 1.
PathInputs ==
    {AbsOf(segs) : segs \in SegSeqs(MaxDepth)}
        \cup {Join(Slash, segs) : segs \in SegSeqs(MaxDepth - 1) \ {<<>>}}

CwdInputs == {AbsOf(<<<<"a">>>>), AbsOf(<<<<"a">>, <<"b">>>>)}

\* The regular file of a filesystem with at most one; everything else named
\* is a directory or absent (os.path.isfile is False of both).
FileInputs == {AbsOf(<<<<"b">>, <<"c">>>>), AbsOf(<<<<"a">>, <<"b">>, <<"c">>>>)}

Pending == [kind |-> "pending", value |-> <<>>]

\* The tree the script runs in: Terraform's directory /r, the module in
\* /r/m, the function's source in /r/s and a build path /r/t.
Root      == AbsOf(<<<<"r">>>>)
ModuleDir == AbsOf(<<<<"r">>, <<"m">>>>)
SourceDir == AbsOf(<<<<"r">>, <<"s">>>>)
BuildDir  == AbsOf(<<<<"r">>, <<"t">>>>)
BuildsDir == PathJoin(ModuleDir, Builds)

XZip == <<"x">> \o DotZip
NTxt == <<"n", ".", "t", "x", "t">>

\* A function from a set of (path, content, mtime) triples.
FilesOf(T)  == [f \in {t[1] : t \in T} |-> (CHOOSE t \in T : t[1] = f)[2]]
MtimesOf(T) == [f \in {t[1] : t \in T} |-> (CHOOSE t \in T : t[1] = f)[3]]

\* "z $filename $runtime $source"
Command ==
    <<"z", " ">> \o FilenameVar \o <<" ">> \o RuntimeVar \o <<" ">>
        \o SourceVar

QueryOf(src, paths, module) ==
    [build_command |-> Command, build_paths |-> paths,
     module_relpath |-> module, runtime |-> <<"g", "o">>, source_path |-> src]

\* Ages in days: younger than the retention, exactly it, older.
Ages == {1, RetentionDays, 10}

----------------------------------------------------------------------------
(* The variables a specification leaves alone *)

RelIdle == arg_a = <<>> /\ arg_b = <<>> /\ rel_result = Pending

ScriptStart(at) ==
    /\ pc = at
    /\ source_path = <<>> /\ final_source_path = <<>> /\ hash_dirs = <<>>
    /\ content_hash = <<>> /\ filename = <<>> /\ build_command = <<>>
    /\ stdout = <<>> /\ stderr = <<>> /\ exit_status = -1

ScriptIdle == query = [k \in Keys |-> <<>>] /\ ScriptStart("idle")

SweepStart(at) ==
    /\ spc = [p \in Procs |-> at]
    /\ todo = [p \in Procs |-> {}]
    /\ name = [p \in Procs |-> <<>>]
    /\ swallowed = [p \in Procs |-> {}]
    /\ raised = [p \in Procs |-> "none"]
    /\ removed = {}

SweepIdle == SweepStart("idle")

----------------------------------------------------------------------------
(* Calls of build_relative_path on every pair of inputs *)

InitRel ==
    /\ cwd \in CwdInputs
    /\ dirs = {}
    /\ \E F \in SUBSET FileInputs :
           /\ Cardinality(F) <= 1
           /\ files = [f \in F |-> <<>>]
           /\ mtime = [f \in F |-> 0]
    /\ readonly = {}
    /\ arg_a \in PathInputs
    /\ arg_b \in PathInputs
    /\ rel_result = Pending
    /\ ScriptIdle
    /\ SweepIdle
    /\ runs = <<>>

CallRel ==
    /\ rel_result = Pending
    /\ rel_result' = build_relative_path(arg_a, arg_b)
    /\ UNCHANGED <<envVars, arg_a, arg_b, scriptVars, sweepVars, runs>>

NextRel == CallRel

SpecRel == InitRel /\ [][NextRel]_vars

----------------------------------------------------------------------------
(* Concurrent invocations of delete_old_archives in the module directory *)

\* builds/x.zip and builds/n.txt, and files of the same names in the module
\* directory itself, each absent or of some age.
SweepFiles ==
    {T \in SUBSET ({PathJoin(BuildsDir, XZip), PathJoin(ModuleDir, XZip)}
                       \X {<<>>} \X {Now - d : d \in Ages}
                   \cup {PathJoin(BuildsDir, NTxt), PathJoin(ModuleDir, NTxt)}
                       \X {<<>>} \X {Now - 10}) :
        \A t, u \in T : t[1] = u[1] => t = u}

InitSweep ==
    /\ cwd = ModuleDir
    /\ dirs = {Slash, Root, ModuleDir, BuildsDir}
    /\ \E T \in SweepFiles : files = FilesOf(T) /\ mtime = MtimesOf(T)
    /\ readonly \in SUBSET ({PathJoin(ModuleDir, XZip)} \cap DOMAIN files)
    /\ RelIdle
    /\ ScriptIdle
    /\ SweepStart("listdir")
    /\ runs = <<>>

NextSweep == \E p \in Procs : delete_old_archives(p)

\* Each invocation is a process of its own and keeps running.
SpecSweep ==
    /\ InitSweep
    /\ [][NextSweep]_vars
    /\ \A p \in Procs : WF_vars(delete_old_archives(p))

----------------------------------------------------------------------------
(* One run of the script *)

FileA == <<"a">>

MainQueries ==
    {QueryOf(src, paths, module) :
        src \in {<<"s">>, <<"s", "/", "a">>, <<"m", "/", "s">>, <<"u">>},
        paths \in {<<>>, <<<<"t">>>>},
        module \in {<<"m">>, <<"x">>}}
      \cup {[k \in Keys \ {"runtime"} |-> QueryOf(<<"s">>, <<>>, <<"m">>)[k]]}

MainFiles ==
    {{<<PathJoin(SourceDir, FileA), <<"b">>, Now - 1>>,
      <<PathJoin(BuildDir, FileA), <<"c">>, Now - 1>>,
      <<PathJoin(ModuleDir, FileA), <<"d">>, Now - 1>>,
      <<PathJoin(BuildsDir, XZip), <<>>, Now - 10>>} \cup T :
        T \in SUBSET {<<PathJoin(ModuleDir, XZip), <<>>, Now - 10>>}}

InitMain ==
    /\ cwd = Root
    /\ dirs \in {{Slash, Root, SourceDir, BuildDir, ModuleDir} \cup D :
                    D \in SUBSET {BuildsDir}}
    /\ \E T \in MainFiles : files = FilesOf(T) /\ mtime = MtimesOf(T)
    /\ readonly \in SUBSET ({PathJoin(ModuleDir, XZip)} \cap DOMAIN files)
    /\ RelIdle
    /\ query \in MainQueries
    /\ ScriptStart("parse")
    /\ SweepIdle
    /\ runs = <<>>

Stages == Parse \/ Relativize \/ Chdir \/ Hash

NextMain ==
    \/ Stages
    \/ Substitute
    \/ CallSweep
    \/ StepSweep
    \/ ReturnSweep
    \/ Output
    \/ Exit

SpecMain == InitMain /\ [][NextMain]_vars

----------------------------------------------------------------------------
(* Runs of the script one after another *)

MaxRuns == 2

Event(kind) ==
    [kind |-> kind, query |-> query, files |-> files, hash_dirs |-> hash_dirs,
     exit_status |-> exit_status, stdout |-> stdout]

IsRun(e) == e.kind = "run"

\* The script has ended; it is invoked again from Terraform's directory.
Rerun ==
    /\ pc = "exited"
    /\ runs' = Append(runs, Event("run"))
    /\ cwd' = Root
    /\ pc' = IF Len(SelectSeq(runs', IsRun)) < MaxRuns THEN "parse" ELSE "idle"
    /\ source_path' = <<>> /\ final_source_path' = <<>> /\ hash_dirs' = <<>>
    /\ content_hash' = <<>> /\ filename' = <<>> /\ build_command' = <<>>
    /\ stdout' = <<>> /\ stderr' = <<>> /\ exit_status' = -1
    /\ spc' = [p \in Procs |-> "idle"]
    /\ todo' = [p \in Procs |-> {}]
    /\ name' = [p \in Procs |-> <<>>]
    /\ swallowed' = [p \in Procs |-> {}]
    /\ raised' = [p \in Procs |-> "none"]
    /\ removed' = {}
    /\ UNCHANGED <<dirs, files, mtime, readonly, relVars, query>>

BetweenRuns == pc = "parse" /\ runs # <<>> /\ IsRun(runs[Len(runs)])

\* Every file is written again with the bytes it has: only the times change.
Touch ==
    /\ BetweenRuns
    /\ mtime' = [f \in DOMAIN mtime |-> Now]
    /\ runs' = Append(runs, Event("touch"))
    /\ UNCHANGED <<cwd, dirs, files, readonly, relVars, scriptVars, sweepVars>>

\* The same paths are supplied in another order.
Reorder ==
    /\ BetweenRuns
    /\ LET paths == <<query.source_path>> \o query.build_paths
       IN \E o \in Orders(1..Len(paths)) :
              /\ \E i \in 1..Len(paths) : o[i] # i
              /\ query' = [query EXCEPT
                              !.source_path = paths[o[1]],
                              !.build_paths =
                                  [i \in 1..(Len(paths) - 1) |-> paths[o[i + 1]]]]
    /\ runs' = Append(runs, Event("reorder"))
    /\ UNCHANGED <<envVars, relVars, pc, source_path, final_source_path,
                   hash_dirs, content_hash, filename, build_command, stdout,
                   stderr, exit_status, sweepVars>>

MaxNameLen == 3

MaxContentLen == 2

NameChars == {"a", "b"}

ContentChars == {"b"}

FileNames == UNION {[1..n -> NameChars] : n \in 1..MaxNameLen}

Contents == UNION {[1..n -> ContentChars] : n \in 0..MaxContentLen}

\* A file of the source directory gets another name there.
RenameFile ==
    /\ BetweenRuns
    /\ \E f \in DOMAIN files, n \in FileNames :
           LET g == PathJoin(SourceDir, n)
           IN /\ DirName(f) = SourceDir
              /\ g \notin DOMAIN files
              /\ files' = [h \in (DOMAIN files \ {f}) \cup {g} |->
                              IF h = g THEN files[f] ELSE files[h]]
              /\ mtime' = [h \in (DOMAIN files \ {f}) \cup {g} |->
                              IF h = g THEN mtime[f] ELSE mtime[h]]
    /\ runs' = Append(runs, Event("rename"))
    /\ UNCHANGED <<cwd, dirs, readonly, relVars, scriptVars, sweepVars>>

Script ==
    \/ Stages
    \/ Substitute
    \/ CallSweep
    \/ StepSweep
    \/ ReturnSweep
    \/ Output
    \/ Exit

HashQueryOf(src, paths) ==
    [QueryOf(src, paths, <<"m">>) EXCEPT !.build_command = <<"z">>]

HashQueries ==
    {HashQueryOf(<<"s">>, paths) :
        paths \in {<<>>, <<<<"t">>>>, <<<<"t">>, <<"s">>>>}}

HashFiles2 ==
    {{<<PathJoin(SourceDir, n1), c1, Now - 1>>,
      <<PathJoin(BuildDir, n2), c2, Now - 1>>} :
        n1 \in {<<"a">>, <<"b">>}, c1 \in {<<>>, <<"a">>},
        n2 \in {<<"a">>, <<"b">>}, c2 \in {<<>>, <<"a">>}}

InitHash ==
    /\ cwd = Root
    /\ dirs = {Slash, Root, SourceDir, BuildDir, ModuleDir, BuildsDir}
    /\ \E T \in HashFiles2 : files = FilesOf(T) /\ mtime = MtimesOf(T)
    /\ readonly = {}
    /\ RelIdle
    /\ query \in HashQueries
    /\ ScriptStart("parse")
    /\ SweepIdle
    /\ runs = <<>>

NextHash == Script \/ Rerun \/ Touch \/ Reorder

SpecHash == InitHash /\ [][NextHash]_vars

\* The source directory holds one or two files.
RenameFiles ==
    LET F == {PathJoin(SourceDir, n) : n \in FileNames} \X Contents
                 \X {Now - 1}
    IN {{p[1], p[2]} : p \in {q \in F \X F : q[1][1] # q[2][1]}}
           \cup {{t} : t \in F}

InitRename ==
    /\ cwd = Root
    /\ dirs = {Slash, Root, SourceDir, ModuleDir, BuildsDir}
    /\ \E T \in RenameFiles : files = FilesOf(T) /\ mtime = MtimesOf(T)
    /\ readonly = {}
    /\ RelIdle
    /\ query = HashQueryOf(<<"s">>, <<>>)
    /\ ScriptStart("parse")
    /\ SweepIdle
    /\ runs = <<>>

NextRename == Script \/ Rerun \/ RenameFile

SpecRename == InitRename /\ [][NextRename]_vars

----------------------------------------------------------------------------
(* The properties *)

Filenames(e) == {e.stdout[i].filename : i \in 1..Len(e.stdout)}

\* C1: two runs of the script on the same query, over the same file names
\* and contents (the modification times may differ), both succeed and print
\* the same filename.
C1_SameQuerySameFilename ==
    \A i, j \in 1..Len(runs) :
        (/\ IsRun(runs[i]) /\ IsRun(runs[j])
         /\ runs[i].query = runs[j].query
         /\ runs[i].files = runs[j].files)
            => /\ runs[i].exit_status = 0
               /\ Filenames(runs[i]) = Filenames(runs[j])

SuppliedPaths(q) == <<q.source_path>> \o q.build_paths

IsReordering(s, t) ==
    /\ Len(s) = Len(t)
    /\ s # t
    /\ \E o \in Orders(1..Len(s)) : \A i \in 1..Len(s) : t[i] = s[o[i]]

\* C2: two runs given the same paths in different orders, over the same
\* files, print the same filename.
C2_SuppliedOrderIsIrrelevant ==
    \A i, j \in 1..Len(runs) :
        (/\ IsRun(runs[i]) /\ IsRun(runs[j])
         /\ runs[i].files = runs[j].files
         /\ IsReordering(SuppliedPaths(runs[i].query),
                         SuppliedPaths(runs[j].query)))
            => Filenames(runs[i]) = Filenames(runs[j])

\* C3: a run before and a run after one file of the source directory was
\* renamed, its bytes and every other file unchanged, print different
\* filenames.
C3_RenameChangesFilename ==
    \A i \in 1..(Len(runs) - 2) :
        (/\ IsRun(runs[i]) /\ runs[i].exit_status = 0
         /\ runs[i + 1].kind = "rename"
         /\ IsRun(runs[i + 2]) /\ runs[i + 2].exit_status = 0)
            => Filenames(runs[i]) \cap Filenames(runs[i + 2]) = {}

\* C4: build_relative_path never raises: every call returns a string.
C4_NeverRaises == rel_result.kind # "raise"

\* The result of a call, taken relative to the reference root b.
ResolvedResult == NormPath(PathJoin(AbsPath(arg_b), rel_result.value))

\* C5: when the resolved path and root are directories with a common
\* ancestor two segments below the filesystem root, the result of a call
\* that returns, resolved against the root, is the resolved path.
C5_RoundTrip ==
    (/\ rel_result.kind = "return"
     /\ ~IsFile(arg_a) /\ ~IsFile(arg_b)
     /\ CommonLen(Split(AbsPath(arg_a)), Split(AbsPath(arg_b))) >= 3)
        => ResolvedResult = AbsPath(arg_a)

\* The directory a path is compared by: a file's containing directory.
ComparedDir(p) == IF IsFile(p) THEN DirName(AbsPath(p)) ELSE AbsPath(p)

\* C6: when the compared directories of path and root share nothing beyond
\* the filesystem root (k < 2), the call returns the absolute form of the
\* path, be it a directory or a regular file.
C6_FallbackIsAbsolute ==
    (/\ rel_result # Pending
     /\ CommonLen(Split(ComparedDir(arg_a)), Split(ComparedDir(arg_b))) < 2)
        => rel_result = Returned(AbsPath(arg_a))

\* The elements of the two roots as build_relative_path splits them, and
\* the length k of their matched prefix.
aelem == Split(get_abs_dirname(arg_a))
belem == Split(get_abs_dirname(arg_b))
MatchedLen == CommonLen(aelem, belem)

\* C10: when k >= 2 and the roots differ, a call that returns gives '../'
\* once for each element of the root b beyond the matched prefix, then the
\* path a as it was given.
C10_ClimbCount ==
    (/\ rel_result.kind = "return"
     /\ aelem # belem
     /\ MatchedLen >= 2)
        => rel_result.value =
               Concat([i \in 1..(Len(belem) - MatchedLen) |-> <<".", ".", "/">>])
                   \o arg_a

IsOldArchive(f, t) ==
    DirName(f) = BuildsDir /\ EndsWith(f, DotZip) /\ t < delete_older_than

\* C7: once every invocation of delete_old_archives has completed, no .zip
\* file of builds/ older than the retention is left, and nothing else was
\* removed.
C7_Retention ==
    (\A p \in Procs : spc[p] = "done")
        => /\ \A f \in DOMAIN files : ~IsOldArchive(f, mtime[f])
           /\ \A r \in removed : IsOldArchive(r.path, r.mtime)

\* C8: every invocation of delete_old_archives comes to its end, and ends in
\* an error only when a removal failed for another reason than the file
\* being gone: a file another invocation removed in between is passed over.
C8_NotFoundIsPassedOver ==
    /\ [](\A p \in Procs :
              spc[p] = "raised"
                  => /\ raised[p] = "EACCES"
                     /\ Lookup(name[p]) \in readonly
                     /\ <<name[p], "remove">> \notin swallowed[p])
    /\ <>(\A p \in Procs :
              \/ spc[p] = "done"
              \/ spc[p] = "raised" /\ raised[p] = "EACCES")

\* An invocation has completed although the file it was about to remove was
\* removed by another one first.
C8_Witness ==
    \E p \in Procs :
        /\ spc[p] = "done"
        /\ <<XZip, "remove">> \in swallowed[p]
        /\ \E r \in removed : r.path = PathJoin(ModuleDir, XZip)

\* C9: the response is on standard output only when relativization,
\* hashing, substitution and the sweep have all completed without error,
\* and then it is the one document of filename and substituted
\* build_command; a run that ends with a non-zero exit status has written
\* nothing to standard output.
C9_AllOrNothing ==
    /\ stdout # <<>> =>
           /\ pc \in {"end", "exited"}
           /\ exit_status \in {-1, 0}
           /\ stderr = <<>>
           /\ cwd = AbsPathIn(Root, query.module_relpath)
           /\ filename = Builds \o Slash \o hexdigest(content_hash) \o DotZip
           /\ \A i \in 1..Len(replacements) :
                  Find(build_command, replacements[i].old) = 0
           /\ spc[Main] = "returned" /\ raised[Main] = "none"
           /\ stdout = <<[filename |-> filename,
                          build_command |-> build_command]>>
    /\ pc = "exited" =>
           /\ exit_status \in {0, 1}
           /\ exit_status = 0 <=> stdout # <<>>
           /\ exit_status = 1 <=> stderr # <<>>

\* A run whose sweep failed to remove a file: exit status 1, nothing
\* written.
C9_Witness ==
    /\ pc = "exited"
    /\ exit_status = 1
    /\ raised[Main] = "EACCES"
    /\ filename # <<>>
    /\ stdout = <<>>

====
